---- MODULE Spec2Model ----
(***************************************************************************)
(* makegen: scan a C/C++ tree, build the include-dependency map            *)
(* (parser.rs), partition the entry points and emit the Makefile           *)
(* (generate.rs).                                                          *)
(*                                                                         *)
(* Text is modelled as sequences of one-character strings, so that the     *)
(* string functions of the program (find, starts_with, slicing, replace)   *)
(* are computed as the code computes them.  Indices are 1-based; 0 stands  *)
(* for Rust's None.                                                        *)
(***************************************************************************)
EXTENDS Integers, Sequences, FiniteSets, TLC

VARIABLES
    fs,              \* contents of the project files read so far: path -> content
    walked,          \* the entries the directory walk has yielded so far
    dependency_map,  \* parser.rs DependencyMap: path -> (include list, has main)
    dlls,            \* parser.rs ParseResult.dlls
    seen,            \* ParseContext.seen, or a closure walk's seen
    stack,           \* the frames of the running recursion, innermost last
    pc,              \* where the run is
    visits,          \* calls of the recursive visit made for the current root
    met,             \* link names of the mapped system headers, in the order met
    cli,             \* the command line, but for its extension
    partitioned,     \* generate.rs PartitionedFiles
    makefile,        \* the entries of the file Makefile on disk
    line,            \* the line handed to extract_include_filename
    extracted        \* what it returned

vars == <<fs, walked, dependency_map, dlls, seen, stack, pc, visits, met,
          cli, partitioned, makefile, line, extracted>>

genVars == <<cli, partitioned, makefile>>

---------------------------------------------------------------------------
(* Bounds of the model *)

\* the most lines a file of the modelled project holds
MaxLines == 2

\* the most lines the files of the modelled project hold together
MaxProjectLines == 4

\* the most texts the library scan is followed through
MaxSources == 3

\* the most characters that follow the keyword on a line given to the extractor
MaxBody == 4

---------------------------------------------------------------------------
(* Strings *)

\* str::find(char): index of the first occurrence, 0 for None
Find(s, c) ==
    IF \E i \in 1..Len(s) : s[i] = c
    THEN CHOOSE i \in 1..Len(s) : s[i] = c /\ \A j \in 1..(i - 1) : s[j] # c
    ELSE 0

\* s[start..].find(c), as an index into s; 0 for None
FindFrom(s, start, c) ==
    IF \E i \in start..Len(s) : s[i] = c
    THEN CHOOSE i \in start..Len(s) : s[i] = c /\ \A j \in start..(i - 1) : s[j] # c
    ELSE 0

\* str::starts_with(&str)
StartsWith(s, p) == Len(p) <= Len(s) /\ SubSeq(s, 1, Len(p)) = p

\* str::contains(&str)
Contains(s, needle) ==
    \E i \in 1..(Len(s) - Len(needle) + 1) : SubSeq(s, i, i + Len(needle) - 1) = needle

\* str::trim_start
TrimStart(s) ==
    IF \A i \in 1..Len(s) : s[i] = " "
    THEN <<>>
    ELSE SubSeq(s, CHOOSE i \in 1..Len(s) : s[i] # " " /\ \A j \in 1..(i - 1) : s[j] = " ", Len(s))

\* Vec::contains
InSeq(x, s) == \E i \in 1..Len(s) : s[i] = x

\* the concatenation of the strings of a list
RECURSIVE Concat(_)
Concat(ss) == IF ss = <<>> THEN <<>> ELSE Head(ss) \o Concat(Tail(ss))

\* str::split('/'): the components of a path
RECURSIVE Split(_)
Split(p) ==
    LET k == Find(p, "/")
    IN  IF k = 0 THEN <<p>> ELSE <<SubSeq(p, 1, k - 1)>> \o Split(SubSeq(p, k + 1, Len(p)))

\* the components joined with '/'
RECURSIVE Join(_)
Join(cs) ==
    IF cs = <<>> THEN <<>>
    ELSE IF Len(cs) = 1 THEN cs[1]
    ELSE cs[1] \o <<"/">> \o Join(Tail(cs))

---------------------------------------------------------------------------
(* filename_utils.rs *)

strip_extension(source) ==
    LET ext_index == Find(source, ".")
    IN  IF ext_index # 0 THEN SubSeq(source, 1, ext_index - 1) ELSE source

\* index of the last '.' of a file name, 0 for none
LastDot(name) ==
    IF \E i \in 1..Len(name) : name[i] = "."
    THEN CHOOSE i \in 1..Len(name) : name[i] = "." /\ \A j \in (i + 1)..Len(name) : name[j] # "."
    ELSE 0

\* Path::file_name: the last component
FileName(path) == LET cs == Split(path) IN cs[Len(cs)]

\* Path::extension: what follows the last '.' of the file name; none when the
\* name has no '.' or only a leading one.  NoExtension stands for None.
NoExtension == <<"/">>
PathExtension(path) ==
    LET name == FileName(path)
        k == LastDot(name)
    IN  IF k <= 1 THEN NoExtension ELSE SubSeq(name, k + 1, Len(name))

has_extension(path, ext) == PathExtension(path) # NoExtension /\ PathExtension(path) = ext

\* is_hidden, for every entry on the way to the path (filter_entry prunes a
\* hidden directory with all that is below it)
is_hidden(path) == \E i \in 1..Len(Split(path)) : StartsWith(Split(path)[i], <<".">>)

---------------------------------------------------------------------------
(* parser.rs: the include extractor and the library table *)

IncludeKw == <<"#", "i", "n", "c", "l", "u", "d", "e">>
MainCall == <<"m", "a", "i", "n", "(">>

math_h == <<"m", "a", "t", "h", ".", "h">>
pthread_h == <<"p", "t", "h", "r", "e", "a", "d", ".", "h">>
ncurses_h == <<"n", "c", "u", "r", "s", "e", "s", ".", "h">>
stdio_h == <<"s", "t", "d", "i", "o", ".", "h">>

\* DLL_MAP.contains_key
DllMapHas(header) == header \in {math_h, pthread_h, ncurses_h}

\* DLL_MAP.get(header).unwrap()
DLL_MAP(header) ==
    IF header = math_h THEN <<"m">>
    ELSE IF header = pthread_h THEN <<"p", "t", "h", "r", "e", "a", "d">>
    ELSE <<"n", "c", "u", "r", "s", "e", "s">>

\* lines 97-119, falling back to the quotes only when there is no '<'
extract_include_filename_OpenOnly(l) ==
    LET start_index == Find(l, "<")
        end_index == Find(l, ">")
    IN  IF start_index = 0
        THEN LET q1 == Find(l, "\"")
                 q2 == IF q1 = 0 THEN 0 ELSE FindFrom(l, q1 + 1, "\"")
             IN  IF q1 = 0 \/ q2 = 0
                 THEN [kind |-> "Panic", name |-> <<>>]
                 ELSE [kind |-> "User", name |-> SubSeq(l, q1 + 1, q2 - 1)]
        ELSE IF end_index = 0 \/ start_index > end_index
             THEN [kind |-> "Panic", name |-> <<>>]
             ELSE [kind |-> "System", name |-> SubSeq(l, start_index + 1, end_index - 1)]

\* lines 97-119.  IncludeFile::System / IncludeFile::User; Panic is a failed
\* unwrap (no quote to fall back to) or a slice whose start is past its end
extract_include_filename(l) ==
    LET start_index == Find(l, "<")
        end_index == Find(l, ">")
    IN  IF start_index = 0 \/ end_index = 0
        THEN LET q1 == Find(l, "\"")
                 q2 == IF q1 = 0 THEN 0 ELSE FindFrom(l, q1 + 1, "\"")
             IN  IF q1 = 0 \/ q2 = 0
                 THEN [kind |-> "Panic", name |-> <<>>]
                 ELSE [kind |-> "User", name |-> SubSeq(l, q1 + 1, q2 - 1)]
        ELSE IF start_index > end_index
             THEN [kind |-> "Panic", name |-> <<>>]
             ELSE [kind |-> "System", name |-> SubSeq(l, start_index + 1, end_index - 1)]

\* the filter of get_include_files_and_update_dlls
IsIncludeLine(l) == StartsWith(TrimStart(l), IncludeKw)

\* lines 128-140, without the check of line 132
IncludeLineStep_NoContains(acc, l) ==
    LET include_file == extract_include_filename(l)
    IN  IF acc.panic \/ ~IsIncludeLine(l) THEN acc
        ELSE IF include_file.kind = "Panic" THEN [acc EXCEPT !.panic = TRUE]
        ELSE IF include_file.kind = "System"
             THEN IF DllMapHas(include_file.name)
                  THEN [acc EXCEPT !.dlls = Append(@, DLL_MAP(include_file.name))]
                  ELSE acc
        ELSE [acc EXCEPT !.include_files = Append(@, include_file.name)]

\* one line of the for_each of get_include_files_and_update_dlls, applied to
\* the accumulator acc = [include_files, dlls, panic]
IncludeLineStep(acc, l) ==
    LET include_file == extract_include_filename(l)
    IN  IF acc.panic \/ ~IsIncludeLine(l) THEN acc
        ELSE IF include_file.kind = "Panic" THEN [acc EXCEPT !.panic = TRUE]
        ELSE IF include_file.kind = "System"
             THEN IF DllMapHas(include_file.name) /\ ~InSeq(DLL_MAP(include_file.name), acc.dlls)
                  THEN [acc EXCEPT !.dlls = Append(@, DLL_MAP(include_file.name))]
                  ELSE acc
        ELSE [acc EXCEPT !.include_files = Append(@, include_file.name)]

RECURSIVE IncludeLinesFold(_, _)
IncludeLinesFold(acc, source) ==
    IF source = <<>> THEN acc
    ELSE IncludeLinesFold(IncludeLineStep(acc, Head(source)), Tail(source))

\* get_include_files_and_update_dlls(source, dlls); source is the sequence
\* of the lines of the text
get_include_files_and_update_dlls(source, d) ==
    IncludeLinesFold([include_files |-> <<>>, dlls |-> d, panic |-> FALSE], source)

\* contents.contains("main(")
HasMain(source) == \E i \in 1..Len(source) : Contains(source[i], MainCall)

\* the link names of the mapped system headers of a text, one per mention,
\* in line order
RECURSIVE MappedMentions(_)
MappedMentions(source) ==
    IF source = <<>> THEN <<>>
    ELSE LET l == Head(source)
             f == extract_include_filename(l)
         IN  (IF IsIncludeLine(l) /\ f.kind = "System" /\ DllMapHas(f.name)
              THEN <<DLL_MAP(f.name)>> ELSE <<>>) \o MappedMentions(Tail(source))


---------------------------------------------------------------------------
(* The project on disk and the command line *)

m_c == <<"m", ".", "c">>
a_h == <<"a", ".", "h">>
b_h == <<"b", ".", "h">>
b_c == <<"b", ".", "c">>
t_x_c == <<"t", "/", "x", ".", "c">>
up_a_h == <<".", ".", "/", "a", ".", "h">>

\* the regular files of the project, as paths relative to its root
Files == {m_c, a_h, b_h, b_c, t_x_c}

\* cli.extension
Extension == <<"c">>

UserLine(text) == IncludeKw \o <<" ", "\"">> \o text \o <<"\"">>
SystemLine(text) == IncludeKw \o <<" ", "<">> \o text \o <<">">>
MainLine == <<"i", "n", "t", " ">> \o MainCall \o <<")">>

\* the lines a file of the project is made of
ProjectLines == {UserLine(a_h), UserLine(b_h), UserLine(b_c), UserLine(up_a_h), MainLine}

RECURSIVE SeqsUpTo(_, _)
SeqsUpTo(S, n) ==
    IF n = 0 THEN {<<>>}
    ELSE LET shorter == SeqsUpTo(S, n - 1)
         IN  shorter \cup {Append(q, x) : q \in shorter, x \in S}

\* what fs::read_to_string may give for a file: its lines, or a failure
Contents ==
    {[ok |-> TRUE, lines |-> ls] : ls \in SeqsUpTo(ProjectLines, MaxLines)}
      \cup {[ok |-> FALSE, lines |-> <<>>]}

\* the directories of the project, as component lists
Dirs == UNION {{SubSeq(Split(f), 1, k) : k \in 0..(Len(Split(f)) - 1)} : f \in Files}

Unresolved == <<"?">>

\* Path::canonicalize over the components cs, appended to the directory acc:
\* "." is dropped, ".." leaves a directory that exists; Unresolved when the walk
\* leaves the root or names nothing that exists
RECURSIVE Canonical(_, _)
Canonical(acc, cs) ==
    IF acc = Unresolved THEN Unresolved
    ELSE IF cs = <<>> THEN acc
    ELSE IF Head(cs) \in {<<>>, <<".">>} THEN Canonical(acc, Tail(cs))
    ELSE IF Head(cs) = <<".", ".">>
         THEN IF acc = <<>> \/ acc \notin Dirs THEN Canonical(Unresolved, <<>>)
              ELSE Canonical(SubSeq(acc, 1, Len(acc) - 1), Tail(cs))
    ELSE Canonical(Append(acc, Head(cs)), Tail(cs))

\* parser.rs 156-166: root/filename, pop, push(include), canonicalize,
\* strip_prefix(root).  An absolute include text replaces the path and ends
\* outside the root.
ResolveInclude(filename, include_file) ==
    LET dir == SubSeq(Split(filename), 1, Len(Split(filename)) - 1)
        full == Canonical(dir, Split(include_file))
    IN  IF StartsWith(include_file, <<"/">>) \/ full = Unresolved \/ full = <<>> THEN Unresolved
        ELSE IF Join(full) \in Files THEN Join(full) ELSE Unresolved

\* the entries Parser::parse hands to the recursive visit: regular files, not
\* hidden, with the configured extension
Roots == {f \in Files : ~is_hidden(f) /\ has_extension(f, Extension)}

---------------------------------------------------------------------------
(* parser.rs: Parser::parse and read_file_and_get_include_files_recursively *)

\* the most visits the model lets one root make before it stops counting
VisitCap == 8

Top == stack[Len(stack)]

\* the lines of the files read so far
RECURSIVE LinesRead(_)
LinesRead(read) ==
    IF read = {} THEN 0
    ELSE LET f == CHOOSE f \in read : TRUE
         IN  Len(fs[f].lines) + LinesRead(read \ {f})

\* what a read of f gives: the content already known, or any content the
\* project has room for
ReadChoices(f) ==
    IF f \in DOMAIN fs THEN {fs[f]}
    ELSE {c \in Contents : Len(c.lines) + LinesRead(DOMAIN fs) <= MaxProjectLines}

\* lines 151-153 of a call on filename, pushed on the frames base: read the
\* file, find main(, collect the includes and the libraries
Call(base, filename, n) ==
    \E c \in ReadChoices(filename) :
        LET r == get_include_files_and_update_dlls(c.lines, dlls)
        IN  /\ fs' = (filename :> c) @@ fs
            /\ visits' = n + 1
            /\ IF ~c.ok
               THEN /\ pc' = "failed"
                    /\ stack' = <<>>
                    /\ UNCHANGED <<dlls, met>>
               ELSE IF r.panic
               THEN /\ pc' = "panicked"
                    /\ stack' = <<>>
                    /\ dlls' = r.dlls
                    /\ met' = met
               ELSE /\ pc' = "visit"
                    /\ stack' = Append(base, [filename |-> filename,
                                              include_files |-> r.include_files,
                                              i |-> 1,
                                              has_main |-> HasMain(c.lines)])
                    /\ dlls' = r.dlls
                    /\ met' = met \o MappedMentions(c.lines)

\* lines 76-83: the walk yields its next entry, with a fresh ParseContext
ParseRoot(entry) ==
    /\ pc = "walk"
    /\ entry \in Roots \ walked
    /\ walked' = walked \cup {entry}
    /\ seen' = {}
    /\ Call(<<>>, entry, 0)
    /\ UNCHANGED <<dependency_map, genVars, line, extracted>>

\* line 168, without the seen-set
ShouldVisit_NoSeen(include_file) == include_file \notin DOMAIN dependency_map

\* line 168: an include is visited unless it is a key or was seen
ShouldVisit(include_file) ==
    include_file \notin DOMAIN dependency_map /\ include_file \notin seen

\* lines 175-178, keeping only the files with the configured extension
InsertFile_SourcesOnly(map, filename, include_files, has_main) ==
    IF filename \in DOMAIN map \/ ~has_extension(filename, Extension) THEN map
    ELSE (filename :> [includes |-> include_files, has_main |-> has_main]) @@ map

\* lines 175-178: the file becomes a key unless it is one
InsertFile(map, filename, include_files, has_main) ==
    IF filename \in DOMAIN map THEN map
    ELSE (filename :> [includes |-> include_files, has_main |-> has_main]) @@ map

\* lines 155-172: one turn of the loop over the includes of the innermost
\* call: resolve the include, and visit it unless it is a key or was seen
IncludeStep ==
    /\ pc = "visit"
    /\ Top.i <= Len(Top.include_files)
    /\ LET include_file == ResolveInclude(Top.filename, Top.include_files[Top.i])
           base == [stack EXCEPT ![Len(stack)] =
                       [@ EXCEPT !.include_files[Top.i] = include_file, !.i = @ + 1]]
       IN  IF include_file = Unresolved
           THEN /\ pc' = "failed"
                /\ stack' = <<>>
                /\ UNCHANGED <<fs, seen, dlls, met, visits>>
           ELSE IF ShouldVisit(include_file)
           THEN /\ visits < VisitCap
                /\ seen' = seen \cup {include_file}
                /\ Call(base, include_file, visits)
           ELSE /\ stack' = base
                /\ UNCHANGED <<fs, seen, dlls, met, visits, pc>>
    /\ UNCHANGED <<walked, dependency_map, genVars, line, extracted>>

\* lines 174-180: the loop is over, the file is inserted, the call returns
VisitReturn ==
    /\ pc = "visit"
    /\ Top.i > Len(Top.include_files)
    /\ dependency_map' =
          InsertFile(dependency_map, Top.filename, Top.include_files, Top.has_main)
    /\ stack' = SubSeq(stack, 1, Len(stack) - 1)
    /\ IF Len(stack) = 1
       THEN \* the call made for the root returns: its ParseContext is dropped
            pc' = "walk" /\ seen' = {} /\ visits' = 0
       ELSE UNCHANGED <<pc, seen, visits>>
    /\ UNCHANGED <<fs, walked, dlls, met, genVars, line, extracted>>

\* line 87: the walk is over, parse returns Ok
ParseOk ==
    /\ pc = "walk"
    /\ walked = Roots
    /\ pc' = "parsed"
    /\ UNCHANGED <<fs, walked, dependency_map, dlls, seen, stack, visits, met, genVars, line, extracted>>

---------------------------------------------------------------------------
(* generate.rs: names *)

LowerCase == <<"a", "b", "c", "d", "e", "f", "g", "h", "i", "j", "k", "l", "m",
               "n", "o", "p", "q", "r", "s", "t", "u", "v", "w", "x", "y", "z">>
UpperCase == <<"A", "B", "C", "D", "E", "F", "G", "H", "I", "J", "K", "L", "M",
               "N", "O", "P", "Q", "R", "S", "T", "U", "V", "W", "X", "Y", "Z">>

\* char::to_ascii_uppercase
UpperChar(c) ==
    IF \E i \in 1..Len(LowerCase) : LowerCase[i] = c
    THEN UpperCase[CHOOSE i \in 1..Len(LowerCase) : LowerCase[i] = c]
    ELSE c

to_ascii_uppercase(s) == [i \in 1..Len(s) |-> UpperChar(s[i])]

\* filename.replace('/', "_")
escape_folder(filename) ==
    [i \in 1..Len(filename) |-> IF filename[i] = "/" THEN "_" ELSE filename[i]]

file_dependencies_var_name(filename, category) ==
    to_ascii_uppercase(escape_folder(filename)) \o <<"_">> \o category \o <<"_", "D", "E", "P", "S">>

source_file_dependencies_var_name(filename) ==
    file_dependencies_var_name(filename, <<"S", "O", "U", "R", "C", "E">>)

object_file_dependencies_var_name(filename) ==
    file_dependencies_var_name(filename, <<"O", "B", "J", "E", "C", "T">>)

\* format!("{}.{}", stem, ctx.cli.extension)
WithExtension(stem) == stem \o <<".">> \o Extension

\* format!("$(ODIR)/{}.o", escape_folder(stem))
ObjectPath(stem) ==
    <<"$", "(", "O", "D", "I", "R", ")", "/">> \o escape_folder(stem) \o <<".", "o">>

\* format!("$({})", var_name)
VarRef(var_name) == <<"$", "(">> \o var_name \o <<")">>

\* the order in which the keys of a HashMap are iterated: unspecified, and the
\* same for every iteration of one unchanged map
RECURSIVE KeyOrder(_)
KeyOrder(keys) ==
    IF keys = {} THEN <<>>
    ELSE LET k == CHOOSE k \in keys : TRUE
         IN  <<k>> \o KeyOrder(keys \ {k})

---------------------------------------------------------------------------
(* generate.rs: the closure walks.  A walk carries w = [out, seen, fuel,     *)
(* panic, diverged]: the items written, the seen-set, the calls it may still *)
(* make, whether an unwrap failed, whether the calls ran out.                *)

\* the most calls of a closure walk the model follows
ClosureFuel == 8

NewWalk == [out |-> <<>>, seen |-> {}, fuel |-> ClosureFuel, panic |-> FALSE, diverged |-> FALSE]

Stopped(w) == w.panic \/ w.diverged

\* lines 174 and 226, without the seen-set
ShouldRecurse_NoSeen(map, dependency, w) == dependency \in DOMAIN map

\* lines 174 and 226: a walk goes into a file that is a key and was not seen
ShouldRecurse(map, dependency, w) == dependency \in DOMAIN map /\ dependency \notin w.seen

RECURSIVE write_source_file_dependecies_r(_, _, _)
RECURSIVE SourceDependencyLoop(_, _, _, _)

\* lines 217-230: the loop over the dependencies of a file, from the k-th on
SourceDependencyLoop(map, dependencies, k, w) ==
    IF Stopped(w) \/ k > Len(dependencies) THEN w
    ELSE LET dependency == dependencies[k]
             w1 == IF dependency \notin w.seen
                   THEN [w EXCEPT !.seen = @ \cup {dependency}, !.out = Append(@, dependency)]
                   ELSE w
             complement == WithExtension(strip_extension(dependency))
             w2 == IF ShouldRecurse(map, complement, w1)
                   THEN write_source_file_dependecies_r(map, complement, w1)
                   ELSE w1
         IN  SourceDependencyLoop(map, dependencies, k + 1, w2)

\* lines 207-233
write_source_file_dependecies_r(map, filename, w) ==
    IF w.fuel = 0 THEN [w EXCEPT !.diverged = TRUE]
    ELSE LET w1 == [w EXCEPT !.out = Append(@, filename),
                             !.seen = @ \cup {filename},
                             !.fuel = @ - 1]
         IN  IF filename \notin DOMAIN map THEN [w1 EXCEPT !.panic = TRUE]
             ELSE SourceDependencyLoop(map, map[filename].includes, 1, w1)

\* lines 197-205: a fresh seen-set for every closure
write_source_file_dependencies(map, filename) ==
    write_source_file_dependecies_r(map, filename, NewWalk)

RECURSIVE write_object_file_dependencies_r(_, _, _)
RECURSIVE ObjectDependencyLoop(_, _, _, _)

\* lines 170-178: the loop over the dependencies, each mapped to the file of
\* its stem with the configured extension
ObjectDependencyLoop(map, dependencies, k, w) ==
    IF Stopped(w) \/ k > Len(dependencies) THEN w
    ELSE LET dependency == WithExtension(strip_extension(dependencies[k]))
             w1 == IF ShouldRecurse(map, dependency, w)
                   THEN write_object_file_dependencies_r(map, dependency, w)
                   ELSE w
         IN  ObjectDependencyLoop(map, dependencies, k + 1, w1)

\* lines 160-180; out holds the files whose object path is written
write_object_file_dependencies_r(map, filename, w) ==
    IF w.fuel = 0 THEN [w EXCEPT !.diverged = TRUE]
    ELSE LET w1 == [w EXCEPT !.out = Append(@, filename),
                             !.seen = @ \cup {filename},
                             !.fuel = @ - 1]
         IN  IF filename \notin DOMAIN map THEN [w1 EXCEPT !.panic = TRUE]
             ELSE ObjectDependencyLoop(map, map[filename].includes, 1, w1)

\* lines 150-158
write_object_file_dependencies(map, file) ==
    write_object_file_dependencies_r(map, file, NewWalk)

---------------------------------------------------------------------------
(* generate.rs: PartitionedFiles::partition *)

\* contained_in_partition!: some identifier, stripped of its extension, is a
\* string prefix of the running file or equal to it
contained_in_partition(identifiers, running) ==
    \E f \in identifiers :
        StartsWith(running, strip_extension(f)) \/ running = strip_extension(f)

\* iter().filter(keep).collect()
RECURSIVE Filter(_, _)
Filter(s, keep) ==
    IF s = <<>> THEN <<>>
    ELSE (IF Head(s) \in keep THEN <<Head(s)>> ELSE <<>>) \o Filter(Tail(s), keep)

Range(s) == {s[i] : i \in 1..Len(s)}

\* lines 46-50: the keys with a main function, stripped of their extension
WithMain(map) ==
    LET keys == KeyOrder(DOMAIN map)
        mains == Filter(keys, {k \in DOMAIN map : map[k].has_main})
    IN  [i \in 1..Len(mains) |-> strip_extension(mains[i])]

\* lines 70-73, leaving out the benchmarks and the examples
Standalone_TestsOnly(with_main, tests, benchmarks, examples) ==
    Filter(with_main, {v \in Range(with_main) : ~InSeq(v, tests)})

\* lines 70-73
Standalone(with_main, tests, benchmarks, examples) ==
    Filter(with_main, {v \in Range(with_main) :
                          ~InSeq(v, tests) /\ ~InSeq(v, benchmarks) /\ ~InSeq(v, examples)})

\* lines 36-81
partition(c, map) ==
    LET with_main == WithMain(map)
        tests == Filter(with_main, {v \in Range(with_main) : contained_in_partition(c.tests, v)})
        benchmarks ==
            Filter(with_main, {v \in Range(with_main) : contained_in_partition(c.benchmarks, v)})
        examples ==
            Filter(with_main, {v \in Range(with_main) : contained_in_partition(c.examples, v)})
    IN  [standalone |-> Standalone(with_main, tests, benchmarks, examples),
         tests |-> tests,
         benchmarks |-> benchmarks,
         examples |-> examples]

---------------------------------------------------------------------------
(* generate.rs: what is written to the Makefile.  The file is a sequence of  *)
(* entries [kind, name, of, files, items, out]: a variable with its items, or *)
(* a rule with its target name, its prerequisites and the file its recipe    *)
(* makes.  e = [entries, panic, diverged] is the file as an emitting         *)
(* function leaves it.                                                       *)

Entry(kind, name, of, files, items, out) ==
    [kind |-> kind, name |-> name, of |-> of, files |-> files, items |-> items, out |-> out]

ODIR == <<"$", "(", "O", "D", "I", "R", ")">>
LFLAGS == <<"L", "F", "L", "A", "G", "S">>

\* lines 107-113: the items of LFLAGS
LinkFlags(d) == [i \in 1..Len(d) |-> <<"-", "l">> \o d[i]]

Written(e, entry) == [e EXCEPT !.entries = Append(@, entry)]

\* a variable whose value a closure walk w wrote: what is in the file when
\* the walk stops is kept
WrittenWalk(e, entry, w) ==
    [entries |-> Append(e.entries, entry), panic |-> w.panic, diverged |-> w.diverged]

\* lines 182-195
generate_source_file_dependencies_variable_for_file(map, file, e) ==
    LET w == write_source_file_dependencies(map, file)
    IN  WrittenWalk(e, Entry("source_deps",
                             source_file_dependencies_var_name(strip_extension(file)),
                             file, w.out, w.out, <<>>), w)

\* lines 136-148
generate_object_file_dependencies_variable_for_file(map, file, e) ==
    LET w == write_object_file_dependencies(map, file)
    IN  WrittenWalk(e, Entry("object_deps",
                             object_file_dependencies_var_name(strip_extension(file)),
                             file, w.out,
                             [i \in 1..Len(w.out) |-> ObjectPath(strip_extension(w.out[i]))],
                             <<>>), w)

\* lines 122-129: the loop over the keys with the configured extension
RECURSIVE FileVariablesLoop(_, _, _)
FileVariablesLoop(map, files, e) ==
    IF e.panic \/ e.diverged \/ files = <<>> THEN e
    ELSE FileVariablesLoop(map, Tail(files),
             generate_source_file_dependencies_variable_for_file(map, Head(files), e))

CompilableKeys(map) ==
    Filter(KeyOrder(DOMAIN map), {f \in DOMAIN map : has_extension(f, Extension)})

\* lines 119-134
generate_file_variables(map, e) == FileVariablesLoop(map, CompilableKeys(map), e)

\* lines 280-284 and 303-307: the rule of a standalone file is named after the
\* binary when the file is the main file, after the file with bin_ otherwise
StandaloneName(c, bin_file) ==
    IF bin_file # strip_extension(c.main_file)
    THEN [prefix |-> <<"b", "i", "n", "_">>, name |-> bin_file]
    ELSE [prefix |-> <<>>, name |-> c.binary]

\* lines 296-318: the variable and the link rule of every standalone file
RECURSIVE StandaloneLoop(_, _, _, _)
StandaloneLoop(c, map, files, e) ==
    IF e.panic \/ e.diverged \/ files = <<>> THEN e
    ELSE LET bin_file == Head(files)
             e1 == generate_object_file_dependencies_variable_for_file(
                       map, WithExtension(bin_file), e)
             n == StandaloneName(c, bin_file)
             rule == Entry("link", n.prefix \o escape_folder(n.name), bin_file, <<>>,
                           <<ODIR, VarRef(object_file_dependencies_var_name(bin_file))>>,
                           n.name)
         IN  StandaloneLoop(c, map, Tail(files),
                            IF e1.panic \/ e1.diverged THEN e1 ELSE Written(e1, rule))

\* lines 247-262: the variable and the link rule of every file of a category
RECURSIVE CategoryLoop(_, _, _)
CategoryLoop(map, files, e) ==
    IF e.panic \/ e.diverged \/ files = <<>> THEN e
    ELSE LET file == Head(files)
             e1 == generate_object_file_dependencies_variable_for_file(
                       map, WithExtension(file), e)
             rule == Entry("link", escape_folder(file), file, <<>>,
                           <<ODIR, VarRef(object_file_dependencies_var_name(file))>>,
                           file)
         IN  CategoryLoop(map, Tail(files),
                          IF e1.panic \/ e1.diverged THEN e1 ELSE Written(e1, rule))

\* lines 236-265: generate_target!
generate_target(map, id, files, e) ==
    IF e.panic \/ e.diverged \/ files = <<>> THEN e
    ELSE CategoryLoop(map, files,
             Written(e, Entry("aggregate", id, <<>>, <<>>,
                              [i \in 1..Len(files) |-> escape_folder(files[i])], <<>>)))

\* lines 324-340, with a compile rule for the entry-point files alone
CompileRules_EntryPointsOnly(map, e) ==
    LET files == Filter(CompilableKeys(map), {f \in DOMAIN map : map[f].has_main})
        rule(f) == Entry("compile", ObjectPath(strip_extension(f)), WithExtension(strip_extension(f)), <<>>,
                         <<ODIR, VarRef(source_file_dependencies_var_name(strip_extension(f)))>>,
                         ObjectPath(strip_extension(f)))
    IN  IF e.panic \/ e.diverged THEN e
        ELSE [e EXCEPT !.entries = @ \o [i \in 1..Len(files) |-> rule(files[i])]]

\* lines 324-340: the compile rule of every key with the configured extension
CompileRules(map, e) ==
    LET files == CompilableKeys(map)
        rule(f) == Entry("compile", ObjectPath(strip_extension(f)), WithExtension(strip_extension(f)), <<>>,
                         <<ODIR, VarRef(source_file_dependencies_var_name(strip_extension(f)))>>,
                         ObjectPath(strip_extension(f)))
    IN  IF e.panic \/ e.diverged THEN e
        ELSE [e EXCEPT !.entries = @ \o [i \in 1..Len(files) |-> rule(files[i])]]

\* lines 347-373
generate_clean_target(c, p, e) ==
    LET binaries == [i \in 1..Len(p.standalone) |-> StandaloneName(c, p.standalone[i]).name]
    IN  IF e.panic \/ e.diverged THEN e
        ELSE Written(e, Entry("clean", <<"c", "l", "e", "a", "n">>, <<>>, <<>>,
                              binaries \o p.tests \o p.benchmarks \o p.examples, <<>>))

\* lines 235-345
generate_targets(c, p, map, e) ==
    LET names == [i \in 1..Len(p.standalone) |->
                     StandaloneName(c, p.standalone[i]).prefix
                         \o escape_folder(StandaloneName(c, p.standalone[i]).name)]
        e1 == Written(e, Entry("aggregate", <<"a", "l", "l">>, <<>>, <<>>,
                               <<<<"b", "i", "n", "a", "r", "i", "e", "s">>>>, <<>>))
        e2 == Written(e1, Entry("aggregate", <<"b", "i", "n", "a", "r", "i", "e", "s">>,
                                <<>>, <<>>, names, <<>>))
        e3 == StandaloneLoop(c, map, p.standalone, e2)
        e4 == generate_target(map, <<"t", "e", "s", "t", "s">>, p.tests, e3)
        e5 == generate_target(map, <<"b", "e", "n", "c", "h", "m", "a", "r", "k", "s">>,
                              p.benchmarks, e4)
        e6 == generate_target(map, <<"e", "x", "a", "m", "p", "l", "e", "s">>, p.examples, e5)
    IN  generate_clean_target(c, p, CompileRules(map, e6))

---------------------------------------------------------------------------
(* generate.rs: generate_makefile, step by step *)

parseVars == <<fs, walked, dependency_map, dlls, seen, stack, visits, met>>

t_dir == <<"t">>
dot_t_dir == <<".", "/", "t">>
prog == <<"p", "r", "o", "g">>
main_c == <<"m", "a", "i", "n", ".", "c">>
tests_dir == <<"t", "e", "s", "t", "s">>
benchmarks_dir == <<"b", "e", "n", "c", "h", "m", "a", "r", "k", "s">>
examples_dir == <<"e", "x", "a", "m", "p", "l", "e", "s">>

Cli(ts, bs, mf) ==
    [tests |-> ts, benchmarks |-> bs, examples |-> {examples_dir},
     main_file |-> mf, binary |-> prog]

\* the command lines of the modelled runs: the defaults of main.rs; the file
\* t/x.c named as a test and m.c as the main file; the directory t named for
\* the benchmarks alone; t/x.c a test with t named for the benchmarks; and the
\* directory of the tests written ./t
Clis ==
    {Cli({tests_dir}, {benchmarks_dir}, main_c),
     Cli({dot_t_dir}, {benchmarks_dir}, m_c),
     Cli({t_x_c}, {benchmarks_dir}, m_c),
     Cli({tests_dir}, {t_dir}, m_c),
     Cli({t_x_c}, {t_dir}, m_c)}

NoCli == [tests |-> {}, benchmarks |-> {}, examples |-> {}, main_file |-> <<>>, binary |-> <<>>]
NoPartition == [standalone |-> <<>>, tests |-> <<>>, benchmarks |-> <<>>, examples |-> <<>>]

\* the Makefile an earlier run left in the directory
PreviousMakefile == <<Entry("previous", <<>>, <<>>, <<>>, <<>>, <<>>)>>

\* line 85: File::create truncates the Makefile
CreateMakefile ==
    /\ pc = "parsed"
    /\ makefile' = <<>>
    /\ pc' = "created"
    /\ UNCHANGED <<parseVars, cli, partitioned, line, extracted>>

\* line 85: File::create fails, generate_makefile returns the error
CreateFails ==
    /\ pc = "parsed"
    /\ pc' = "failed"
    /\ UNCHANGED <<parseVars, genVars, line, extracted>>

\* lines 86-87.  The command line is fixed before the parse, which reads only
\* its extension: the rest is drawn here, where it is first read.
Partition(c) ==
    /\ pc = "created"
    /\ cli' = c
    /\ partitioned' = partition(c, dependency_map)
    /\ pc' = "compiler_variables"
    /\ UNCHANGED <<parseVars, makefile, line, extracted>>

\* where generate_makefile stands after an emitting function left the file as e
After(e, next) == IF e.panic THEN "panicked" ELSE IF e.diverged THEN "diverged" ELSE next

Emitting == [entries |-> makefile, panic |-> FALSE, diverged |-> FALSE]

\* lines 96-117
GenerateCompilerVariables ==
    /\ pc = "compiler_variables"
    /\ makefile' = Append(makefile, Entry("flags", LFLAGS, <<>>, <<>>, LinkFlags(dlls), <<>>))
    /\ pc' = "file_variables"
    /\ UNCHANGED <<parseVars, cli, partitioned, line, extracted>>

\* lines 119-134
GenerateFileVariables ==
    /\ pc = "file_variables"
    /\ LET e == generate_file_variables(dependency_map, Emitting)
       IN  /\ makefile' = e.entries
           /\ pc' = After(e, "targets")
    /\ UNCHANGED <<parseVars, cli, partitioned, line, extracted>>

\* lines 235-345
GenerateTargets ==
    /\ pc = "targets"
    /\ LET e == generate_targets(cli, partitioned, dependency_map, Emitting)
       IN  /\ makefile' = e.entries
           /\ pc' = After(e, "done")
    /\ UNCHANGED <<parseVars, cli, partitioned, line, extracted>>

\* a write!/writeln! returns an error, which `?` hands up to main
WriteFails ==
    /\ pc \in {"compiler_variables", "file_variables", "targets"}
    /\ pc' = "failed"
    /\ UNCHANGED <<parseVars, genVars, line, extracted>>

---------------------------------------------------------------------------
(* The run of main.rs *)

NoLine == <<>>
NotExtracted == [kind |-> "None", name |-> <<>>]

Init ==
    /\ fs = <<>>
    /\ walked = {}
    /\ dependency_map = <<>>
    /\ dlls = <<>>
    /\ seen = {}
    /\ stack = <<>>
    /\ pc = "walk"
    /\ visits = 0
    /\ met = <<>>
    /\ cli = NoCli
    /\ partitioned = NoPartition
    /\ makefile = PreviousMakefile
    /\ line = NoLine
    /\ extracted = NotExtracted

Next ==
    \/ \E entry \in Files : ParseRoot(entry)
    \/ IncludeStep
    \/ VisitReturn
    \/ ParseOk
    \/ CreateMakefile
    \/ CreateFails
    \/ \E c \in Clis : Partition(c)
    \/ GenerateCompilerVariables
    \/ GenerateFileVariables
    \/ GenerateTargets
    \/ WriteFails

Spec == Init /\ [][Next]_vars

---------------------------------------------------------------------------
(* The library scan on its own: get_include_files_and_update_dlls applied to *)
(* one text after another, as the visits of the builder apply it, and then   *)
(* the flags written by generate_compiler_variables                          *)

DllLines == {SystemLine(math_h), SystemLine(pthread_h), SystemLine(stdio_h), UserLine(math_h)}

\* line 153 of one visit
VisitSource(source) ==
    /\ pc = "walk"
    /\ visits < MaxSources
    /\ dlls' = get_include_files_and_update_dlls(source, dlls).dlls
    /\ met' = met \o MappedMentions(source)
    /\ visits' = visits + 1
    /\ UNCHANGED <<fs, walked, dependency_map, seen, stack, pc, genVars, line, extracted>>

\* the visits are over: parse returns, generate_makefile creates the file
LibrariesParsed ==
    /\ pc = "walk"
    /\ pc' = "compiler_variables"
    /\ makefile' = <<>>
    /\ UNCHANGED <<parseVars, cli, partitioned, line, extracted>>

DllsNext ==
    \/ \E source \in SeqsUpTo(DllLines, MaxLines) : VisitSource(source)
    \/ LibrariesParsed
    \/ GenerateCompilerVariables

DllsSpec == Init /\ [][DllsNext]_vars

---------------------------------------------------------------------------
(* The include extractor on its own *)

ExtractChars == {"<", ">", "\"", "a"}

\* the lines given to the extractor: the keyword and a blank, followed by any
\* few of the characters that matter; and the two lines of the specification,
\* one of them indented
ExtractLines ==
    {IncludeKw \o <<" ">> \o body : body \in SeqsUpTo(ExtractChars, MaxBody)}
        \cup {SystemLine(math_h), UserLine(a_h), <<" ", " ">> \o UserLine(a_h)}

ExtractInit ==
    /\ fs = <<>>
    /\ walked = {}
    /\ dependency_map = <<>>
    /\ dlls = <<>>
    /\ seen = {}
    /\ stack = <<>>
    /\ pc = "extract"
    /\ visits = 0
    /\ met = <<>>
    /\ cli = NoCli
    /\ partitioned = NoPartition
    /\ makefile = PreviousMakefile
    /\ line \in ExtractLines
    /\ extracted = NotExtracted

\* lines 125-127: a line that passes the filter is handed to the extractor
Extract ==
    /\ pc = "extract"
    /\ IsIncludeLine(line)
    /\ extracted' = extract_include_filename(line)
    /\ pc' = "extracted"
    /\ UNCHANGED <<parseVars, genVars, line>>

ExtractSpec == ExtractInit /\ [][Extract]_vars

\* Parser::parse alone
ParseNext ==
    \/ \E entry \in Files : ParseRoot(entry)
    \/ IncludeStep
    \/ VisitReturn
    \/ ParseOk

ParseSpec == Init /\ [][ParseNext]_vars

---------------------------------------------------------------------------
(* What the claims speak of *)

\* the least set that holds S and is closed under the function succ, which
\* gives the set of successors of each of its arguments
RECURSIVE ClosedUnder(_, _)
ClosedUnder(S, succ) ==
    LET T == S \cup UNION {succ[x] : x \in S \cap DOMAIN succ}
    IN  IF T = S THEN S ELSE ClosedUnder(T, succ)

\* the files a file of the project includes, by its text on disk
UserIncludes(f) ==
    IF f \notin DOMAIN fs THEN {}
    ELSE LET texts == get_include_files_and_update_dlls(fs[f].lines, <<>>).include_files
         IN  {ResolveInclude(f, texts[i]) : i \in 1..Len(texts)} \ {Unresolved}

\* the files reached from f by a chain of one or more user includes
IncludedFrom(f) == ClosedUnder(UserIncludes(f), [g \in Files |-> UserIncludes(g)])

\* the direct includes of a key of the map
DirectIncludes(k) == IF k \in DOMAIN dependency_map THEN Range(dependency_map[k].includes) ELSE {}

\* the files reached from a key by a chain of one or more direct includes
DependsOn(k) == ClosedUnder(DirectIncludes(k), [g \in DOMAIN dependency_map |-> DirectIncludes(g)])

ParseReturnedOk == pc \notin {"walk", "visit", "failed", "panicked"}

Keys == DOMAIN dependency_map

\* C1: once parse has returned Ok, every file reached from a scanned root by
\* a chain of one or more user includes is a key of the dependency map, and
\* every path in a key's direct-include list is a key.
C1_IncludesAreKeys ==
    ParseReturnedOk =>
        /\ \A r \in Roots : IncludedFrom(r) \subseteq Keys
        /\ \A k \in Keys : DirectIncludes(k) \subseteq Keys

\* parse returned Ok on a project whose includes form a cycle and in which a
\* scanned root is also included by another file
C1_Witness ==
    /\ pc = "parsed"
    /\ \E k \in Keys : k \in DependsOn(k)
    /\ \E k \in Keys, r \in Roots : k # r /\ r \in DirectIncludes(k)

\* the turns of the loops that the calls on the stack have yet to make
RECURSIVE Pending(_)
Pending(frames) ==
    IF frames = <<>> THEN 0
    ELSE (Len(Head(frames).include_files) - Head(frames).i + 1) + Pending(Tail(frames))

\* what is left of the visit of a root: the files not yet seen, each worth a
\* whole call, the pending turns and the calls to return from
Measure == (MaxLines + 2) * Cardinality(Files \ seen) + Pending(stack) + Len(stack)

\* C2: the visit of a root ends.  Every recursive visit made for a root
\* follows the addition of a new path to the seen-set, so the visits made for
\* it are one more than the paths seen, which are files of the project (the
\* cap on the visits is never met); and every step of the visit takes from
\* what is left of it, so it cannot go on for ever.
C2_BuilderTerminates ==
    [][/\ pc' = "visit" =>
            /\ visits' = Cardinality(seen') + 1
            /\ seen' \subseteq Files
            /\ visits' < VisitCap
       /\ (pc = "visit" /\ pc' = "visit") => Measure' < Measure]_vars

\* the visit of a root stands before an include that closes a cycle: the
\* included file was seen on the way and is not yet a key
C2_Witness ==
    /\ pc = "visit"
    /\ Top.i <= Len(Top.include_files)
    /\ LET include_file == ResolveInclude(Top.filename, Top.include_files[Top.i])
       IN  /\ include_file \in seen \ Keys
           /\ \E j \in 1..Len(stack) : stack[j].filename = include_file

\* the entries of the Makefile that hold the closure of a file
SourceEntries == {i \in 1..Len(makefile) : makefile[i].kind = "source_deps"}
ObjectEntries == {i \in 1..Len(makefile) : makefile[i].kind = "object_deps"}

CompilableKeySet == {k \in Keys : has_extension(k, Extension)}

\* C3, as claimed: for every key F with the configured extension, the value
\* written for its _SOURCE_DEPS variable holds every file reached from F by a
\* chain of one or more direct includes.
C3_SourceDepsHoldAllIncludes ==
    pc \in {"targets", "done"} =>
        \A F \in CompilableKeySet :
            \E i \in SourceEntries :
                /\ makefile[i].of = F
                /\ DependsOn(F) \subseteq Range(makefile[i].items)

\* the keys with a main function
EntryPointKeys == {k \in Keys : dependency_map[k].has_main}

\* a direct include, or a hop to a key of the same stem
IncludeOrSameStem(g) == DirectIncludes(g) \cup {k \in Keys : strip_extension(k) = strip_extension(g)}

\* the files reached from F by direct includes and same-stem hops
PairedClosure(F) == ClosedUnder({F}, [g \in Keys |-> IncludeOrSameStem(g)])

\* C4, as claimed: for every entry-point file F, the object path of the
\* same-stem source file of every header reached from F by direct includes
\* and same-stem hops stands in the _OBJECT_DEPS list of F, when that source
\* file is a key.
C4_ObjectDepsHoldPairedSources ==
    pc = "done" =>
        \A F \in EntryPointKeys :
            \A i \in ObjectEntries :
                makefile[i].of = WithExtension(strip_extension(F)) =>
                    \A H \in PairedClosure(F) :
                        (/\ ~has_extension(H, Extension)
                         /\ WithExtension(strip_extension(H)) \in Keys)
                            => ObjectPath(strip_extension(H)) \in Range(makefile[i].items)

NoRepetition(s) == \A i, j \in 1..Len(s) : s[i] = s[j] => i = j

\* C5: every closure walk of the emitter ends within the calls the model
\* follows, and no file stands twice in the list written for one closure.
C5_ClosuresEndWithoutRepetition ==
    /\ pc # "diverged"
    /\ \A i \in SourceEntries \cup ObjectEntries : NoRepetition(makefile[i].files)

\* the Makefile is complete and one of its closures went through files that
\* include each other
C5_Witness ==
    /\ pc = "done"
    /\ \E i \in SourceEntries \cup ObjectEntries :
          /\ Len(makefile[i].files) >= 2
          /\ \E g \in Range(makefile[i].files) : g \in DependsOn(g)

\* the entry-point files, as the partition names them
EntryPoints == {strip_extension(k) : k \in EntryPointKeys}

IsPartitioned == cli # NoCli

\* C8: an entry-point file whose stripped path is a stripped test identifier
\* is in tests and not in standalone; standalone holds the entry-point files
\* that are in none of tests, benchmarks, examples, and no others; so every
\* entry-point file is in one of the four lists at least.
C8_StandaloneIsTheRest ==
    IsPartitioned =>
        /\ \A v \in EntryPoints :
              (\E f \in cli.tests : v = strip_extension(f))
                  => InSeq(v, partitioned.tests) /\ ~InSeq(v, partitioned.standalone)
        /\ Range(partitioned.standalone)
              = {v \in EntryPoints : /\ ~InSeq(v, partitioned.tests)
                                     /\ ~InSeq(v, partitioned.benchmarks)
                                     /\ ~InSeq(v, partitioned.examples)}
        /\ EntryPoints \subseteq Range(partitioned.standalone) \cup Range(partitioned.tests)
                                    \cup Range(partitioned.benchmarks)
                                    \cup Range(partitioned.examples)

\* a file named as a test is an entry point, and so is a standalone file
C8_Witness ==
    /\ IsPartitioned
    /\ \E v \in EntryPoints : \E f \in cli.tests : v = strip_extension(f)
    /\ partitioned.standalone # <<>>
    /\ partitioned.tests # <<>>

\* the lists among the four that hold v
ListsHolding(v) ==
    {n \in {"standalone", "tests", "benchmarks", "examples"} : InSeq(v, partitioned[n])}

\* C9, as claimed: no entry-point file is in two of the four lists.
C9_ExactlyOneCategory ==
    IsPartitioned => \A v \in EntryPoints : Cardinality(ListsHolding(v)) = 1

\* C10, as claimed: a run that aborts leaves the Makefile of the directory as
\* it was.
C10_AbortLeavesMakefile ==
    pc \in {"failed", "panicked"} => makefile = PreviousMakefile

\* a sequence without its repetitions, each item where it first stands
RECURSIVE FirstMentions(_)
FirstMentions(s) ==
    IF s = <<>> THEN <<>>
    ELSE LET rest == FirstMentions(SubSeq(s, 1, Len(s) - 1))
             last == s[Len(s)]
         IN  IF InSeq(last, rest) THEN rest ELSE Append(rest, last)

Occurrences(x, s) == Cardinality({i \in 1..Len(s) : s[i] = x})

LinkNames == {DLL_MAP(math_h), DLL_MAP(pthread_h), DLL_MAP(ncurses_h)}

\* the entries of the Makefile that set LFLAGS
FlagEntries == {i \in 1..Len(makefile) : makefile[i].kind = "flags"}

\* C6: the library list holds the link names of the mapped system headers met
\* so far, each once, in the order in which they were first met; and LFLAGS,
\* once written, holds -l<name> exactly once for each of them and nothing else.
C6_LibrariesOnceInOrder ==
    /\ dlls = FirstMentions(met)
    /\ \A i \in FlagEntries :
          /\ \A n \in LinkNames :
                Occurrences(<<"-", "l">> \o n, makefile[i].items)
                    = (IF InSeq(n, met) THEN 1 ELSE 0)
          /\ Range(makefile[i].items) \subseteq {<<"-", "l">> \o n : n \in Range(met)}

\* LFLAGS is written after two mapped headers were met, pthread.h first and
\* one of them more than once
C6_Witness ==
    /\ FlagEntries # {}
    /\ Len(met) > 2
    /\ dlls = <<DLL_MAP(pthread_h), DLL_MAP(math_h)>>

\* the indices at which c stands in l
Places(l, c) == {i \in 1..Len(l) : l[i] = c}

Least(S) == CHOOSE i \in S : \A j \in S : i <= j

\* the text between the first '<' and the first '>' of l
BetweenAngles(l) == SubSeq(l, Least(Places(l, "<")) + 1, Least(Places(l, ">")) - 1)

\* the text between the first '"' of l and the next
BetweenQuotes(l) ==
    LET first == Least(Places(l, "\""))
    IN  SubSeq(l, first + 1, Least(Places(l, "\"") \ {first}) - 1)

\* the line holds the delimiters the extractor goes by: a '<' before the first
\* '>', or, when one of them is missing, two '"'
Delimited(l) ==
    IF Places(l, "<") # {} /\ Places(l, ">") # {}
    THEN Least(Places(l, "<")) < Least(Places(l, ">"))
    ELSE Cardinality(Places(l, "\"")) >= 2

\* what the claim says of a line
ClaimedInclude(l) ==
    IF Places(l, "<") # {} /\ Places(l, ">") # {}
    THEN [kind |-> "System",
          name |-> IF Delimited(l) THEN BetweenAngles(l) ELSE <<>>]
    ELSE [kind |-> "User",
          name |-> IF Delimited(l) THEN BetweenQuotes(l) ELSE <<>>]

\* C7, as claimed: for every line that passes the prefix check the extractor
\* returns System(text between the first '<' and the first '>') when the line
\* holds both, and User(text between the first '"' and the next) otherwise.
C7_ExtractsEveryLine ==
    pc = "extracted" => extracted = ClaimedInclude(line)

\* C7, amended: so it does on a line that holds the delimiters (a '<' before
\* the first '>', or, one of them missing, two '"'); on any other line that
\* passes the prefix check the extractor panics.
C7_ExtractsDelimitedLines ==
    pc = "extracted" =>
        IF Delimited(line) THEN extracted = ClaimedInclude(line)
        ELSE extracted.kind = "Panic"

\* a quoted include on a line with an unmatched '<' came out as User
C7_Witness ==
    /\ pc = "extracted"
    /\ Places(line, "<") # {}
    /\ Places(line, ">") = {}
    /\ Find(line, "<") < Find(line, "\"")
    /\ extracted = [kind |-> "User", name |-> <<"a">>]

---------------------------------------------------------------------------
(* Claims about the emitter's lookups and the rules it writes *)

\* C11, as claimed: every closure the emitter starts is rooted at a key of
\* the map, every file it looks up or writes is a key, and no run stops at
\* the unwrap of a missing key (a run that panics does so before the
\* Makefile is touched, never inside the emitter).
C11_ClosuresStayInsideKeys ==
    /\ \A i \in SourceEntries \cup ObjectEntries :
          /\ makefile[i].of \in Keys
          /\ Range(makefile[i].files) \subseteq Keys
    /\ (pc = "panicked" => makefile = PreviousMakefile)

\* the link rules of the Makefile
LinkEntries == {i \in 1..Len(makefile) : makefile[i].kind = "link"}

\* C12, as claimed: the target of every link rule is the name its recipe
\* hands to -o.
C12_LinkRuleNamesItsOutput ==
    \A i \in LinkEntries : makefile[i].name = makefile[i].out

\* p is not empty and its components are the leading components of v
PathPrefix(p, v) ==
    /\ p # <<>>
    /\ Len(Split(p)) <= Len(Split(v))
    /\ SubSeq(Split(v), 1, Len(Split(p))) = Split(p)

\* C13, as claimed: an entry-point file is in tests, benchmarks or examples
\* exactly when an identifier of that category, stripped of its extension, is
\* its path or a path-prefix of it; an identifier that strips to the empty
\* string matches nothing.
C13_CategoryByPathPrefix ==
    IsPartitioned =>
        \A n \in {"tests", "benchmarks", "examples"} :
            \A v \in EntryPoints :
                InSeq(v, partitioned[n])
                    <=> \E f \in cli[n] : PathPrefix(strip_extension(f), v)

CompileEntries == {i \in 1..Len(makefile) : makefile[i].kind = "compile"}

\* the targets binaries, tests, benchmarks, examples, which list link rules
MemberEntries ==
    {i \in 1..Len(makefile) : /\ makefile[i].kind = "aggregate"
                              /\ makefile[i].name # <<"a", "l", "l">>}

\* the variables a rule refers to
VariablesOf(i) == Range(makefile[i].items) \ {ODIR}

\* C14: in a completely written Makefile every object path of an
\* _OBJECT_DEPS value is the target of a compile rule, every member of
\* binaries, tests, benchmarks and examples is the target of a link rule of
\* that very name, and every _SOURCE_DEPS or _OBJECT_DEPS variable a rule
\* refers to is defined.
C14_MakefileRefersToWhatItDefines ==
    pc = "done" =>
        /\ \A i \in ObjectEntries : \A o \in Range(makefile[i].items) :
              \E j \in CompileEntries : makefile[j].name = o
        /\ \A i \in MemberEntries : \A member \in Range(makefile[i].items) :
              \E j \in LinkEntries : makefile[j].name = member
        /\ \A i \in LinkEntries \cup CompileEntries : \A r \in VariablesOf(i) :
              \E j \in SourceEntries \cup ObjectEntries : VarRef(makefile[j].name) = r

\* a complete Makefile with a closure of two object files, a test in a
\* directory and a standalone binary
C14_Witness ==
    /\ pc = "done"
    /\ \E i \in ObjectEntries : Len(makefile[i].items) >= 2
    /\ \E i \in MemberEntries : /\ makefile[i].name = tests_dir
                                /\ <<"t", "_", "x">> \in Range(makefile[i].items)
    /\ \E i \in MemberEntries : /\ makefile[i].name = <<"b", "i", "n", "a", "r", "i", "e", "s">>
                                /\ makefile[i].items # <<>>

====
